---- MODULE Spec2Model ----
(***************************************************************************)
(* Model of server/services/screenplayFormatter.js (ScreenplayFormatter).  *)
(* A JavaScript string is a sequence of one-character strings.             *)
(***************************************************************************)
EXTENDS Integers, Sequences, FiniteSets, TLC

VARIABLES
    pc,              \* position of the running call
    rawScreenplay,   \* formatScreenplay: the argument
    lines,           \* formatScreenplay: rawScreenplay.split('\n')
    i,               \* formatScreenplay: loop index (1-based)
    formattedLines,  \* formatScreenplay: the output lines pushed so far
    currentElement,  \* formatScreenplay: pending kind, "null" when none
    lineBuffer,      \* formatScreenplay: pending stripped lines
    emitted,         \* formatScreenplay: the (type, lines) of every _formatElement call so far
    output,          \* formatScreenplay: the returned string
    text,            \* _wrapText: argument text
    width,           \* _wrapText: argument width
    wrapped,         \* _wrapText: the returned string
    line,            \* _detectElementType: argument line
    elementType,     \* _detectElementType: the returned kind
    regex,           \* the instance: this.regex, per pattern its flags and lastIndex
    calls,           \* the number of formatScreenplay calls made on the instance
    results,         \* the (argument, result) pairs of the calls that returned
    blockType,       \* _formatElement: argument type
    blockLines,      \* the lineBuffer whose join is given to _formatElement
    blockText,       \* _formatElement: argument text
    rendered,        \* _formatElement: the returned string
    issues,          \* fixFormatIssues: argument issues
    validation,      \* validateFormat: the returned object
    request,         \* scriptRoutes: the route and the body of the request
    generated,       \* scriptRoutes: what the generator call came to
    projectJson,     \* ProjectManager: the assets object stored in project.json
    assetFiles,      \* ProjectManager: the files of the assets directory, by name
    pmCalls,         \* ProjectManager: the calls issued so far, each with its position
    overlapped,      \* ProjectManager: whether a call was ever issued while another ran
    responses        \* scriptRoutes: the responses sent for the request

vars == <<pc, rawScreenplay, lines, i, formattedLines, currentElement, lineBuffer,
          emitted, output, text, width, wrapped, line, elementType,
          regex, calls, results, blockType, blockLines, blockText, rendered,
          issues, validation, request, generated, responses,
          projectJson, assetFiles, pmCalls, overlapped>>

fmtVars == <<rawScreenplay, lines, i, formattedLines, currentElement, lineBuffer, emitted, output>>
wrapVars == <<text, width, wrapped>>
detectVars == <<line, elementType>>
instVars == <<regex, calls, results>>
renderVars == <<blockType, blockLines, blockText, rendered>>
stubVars == <<issues, validation>>
routeVars == <<request, generated, responses>>
assetVars == <<projectJson, assetFiles, pmCalls, overlapped>>

----------------------------------------------------------------------------
(* Characters and the String primitives the formatter uses                 *)

UpperSeq == <<"A","B","C","D","E","F","G","H","I","J","K","L","M",
              "N","O","P","Q","R","S","T","U","V","W","X","Y","Z">>
LowerSeq == <<"a","b","c","d","e","f","g","h","i","j","k","l","m",
              "n","o","p","q","r","s","t","u","v","w","x","y","z">>

UpperLetters == {UpperSeq[k] : k \in 1..26}
LowerLetters == {LowerSeq[k] : k \in 1..26}
Digits == {"0","1","2","3","4","5","6","7","8","9"}
\* what \s in a regex and String.prototype.trim treat as white space
WhiteSpace == {" ", "\t", "\n", "\r"}
\* what '.' in a regex does not match
LineTerminators == {"\n", "\r"}

\* String.prototype.toUpperCase, one character
UpperChar(c) ==
    IF c \in LowerLetters THEN UpperSeq[CHOOSE k \in 1..26 : LowerSeq[k] = c] ELSE c

\* String.prototype.toUpperCase
ToUpperCase(s) == [k \in 1..Len(s) |-> UpperChar(s[k])]

\* String.prototype.trim
Trim(s) ==
    LET keep == {k \in 1..Len(s) : s[k] \notin WhiteSpace}
    IN  IF keep = {} THEN <<>>
        ELSE LET lo == CHOOSE k \in keep : \A m \in keep : k <= m
                 hi == CHOOSE k \in keep : \A m \in keep : k >= m
             IN  SubSeq(s, lo, hi)

\* String.prototype.split(sep) for a one-character separator: always at least one piece
RECURSIVE Split(_, _)
Split(s, sep) ==
    IF \A k \in 1..Len(s) : s[k] # sep THEN <<s>>
    ELSE LET p == CHOOSE k \in 1..Len(s) : s[k] = sep /\ \A m \in 1..(k-1) : s[m] # sep
         IN  <<SubSeq(s, 1, p - 1)>> \o Split(SubSeq(s, p + 1, Len(s)), sep)

\* Array.prototype.join(sep)
RECURSIVE Join(_, _)
Join(parts, sep) ==
    IF Len(parts) = 0 THEN <<>>
    ELSE IF Len(parts) = 1 THEN parts[1]
    ELSE parts[1] \o sep \o Join(Tail(parts), sep)

\* String.prototype.startsWith / endsWith
StartsWith(s, p) == Len(s) >= Len(p) /\ SubSeq(s, 1, Len(p)) = p
\* slip: includes in place of endsWith
EndsWith_Anywhere(s, p) ==
    \E k \in 1..(Len(s) - Len(p) + 1) : SubSeq(s, k, k + Len(p) - 1) = p
EndsWith(s, p) == Len(s) >= Len(p) /\ SubSeq(s, Len(s) - Len(p) + 1, Len(s)) = p

\* a string literal as a sequence of characters, n copies of a character
Rep(c, n) == [k \in 1..n |-> c]

----------------------------------------------------------------------------
(* constructor: the regex table                                            *)

ScenePrefixes == {<<"I","N","T">>,
                  <<"E","X","T">>,
                  <<"I","N","T","/","E","X","T">>,
                  <<"E","X","T","/","I","N","T">>}
TimeOfDay == {<<"D","A","Y">>,
              <<"N","I","G","H","T">>,
              <<"M","O","R","N","I","N","G">>,
              <<"E","V","E","N","I","N","G">>,
              <<"D","U","S","K">>,
              <<"D","A","W","N">>,
              <<"C","O","N","T","I","N","U","O","U","S">>,
              <<"L","A","T","E","R">>,
              <<"S","A","M","E"," ","T","I","M","E">>,
              <<"M","O","M","E","N","T","S"," ","L","A","T","E","R">>}
TransitionKeywords == {<<"F","A","D","E">>,
                       <<"C","U","T">>,
                       <<"D","I","S","S","O","L","V","E">>,
                       <<"S","M","A","S","H">>,
                       <<"W","I","P","E">>,
                       <<"F","A","D","E"," ","T","O"," ","B","L","A","C","K">>,
                       <<"M","A","T","C","H"," ","C","U","T">>,
                       <<"T","I","M","E"," ","C","U","T">>}

\* slip: the scene heading pattern without the i flag
RegexSceneHeading_CaseSensitive(s) ==
    \E p \in ScenePrefixes, t \in TimeOfDay :
        /\ StartsWith(s, p)
        /\ EndsWith(s, t)
        /\ Len(s) >= Len(p) + Len(t)
        /\ LET seg == SubSeq(s, Len(p) + 1, Len(s) - Len(t))
           IN  \E j \in 1..Len(seg) : \E k \in (j+1)..Len(seg) :
                   /\ \A m \in 1..j : seg[m] \in WhiteSpace \cup {"."}
                   /\ \A m \in (j+1)..(k-1) : seg[m] \notin LineTerminators
                   /\ \A m \in k..Len(seg) : seg[m] \in WhiteSpace \cup {".", "-"}

\* regex.sceneHeading.test(s):
\* /^(INT|EXT|INT\/EXT|EXT\/INT)[\s\.]+(.*?)[\s\.-]+(DAY|...|MOMENTS LATER)$/i
RegexSceneHeading(s) ==
    \E p \in ScenePrefixes, t \in TimeOfDay :
        /\ StartsWith(ToUpperCase(s), p)
        /\ EndsWith(ToUpperCase(s), t)
        /\ Len(s) >= Len(p) + Len(t)
        /\ LET seg == SubSeq(s, Len(p) + 1, Len(s) - Len(t))
           IN  \E j \in 1..Len(seg) : \E k \in (j+1)..Len(seg) :
                   /\ \A m \in 1..j : seg[m] \in WhiteSpace \cup {"."}
                   /\ \A m \in (j+1)..(k-1) : seg[m] \notin LineTerminators
                   /\ \A m \in k..Len(seg) : seg[m] \in WhiteSpace \cup {".", "-"}

\* slip: the character pattern without digits and parentheses, /^[A-Z][A-Z\s]*$/
RegexCharacter_LettersOnly(s) ==
    /\ Len(s) >= 1
    /\ s[1] \in UpperLetters
    /\ \A k \in 2..Len(s) : s[k] \in UpperLetters \cup WhiteSpace

\* regex.character.test(s): /^[A-Z][A-Z0-9\s\(\)]*$/
RegexCharacter(s) ==
    /\ Len(s) >= 1
    /\ s[1] \in UpperLetters
    /\ \A k \in 2..Len(s) : s[k] \in UpperLetters \cup Digits \cup WhiteSpace \cup {"(", ")"}

\* regex.parenthetical.test(s): /^\(.+\)$/
RegexParenthetical(s) ==
    /\ Len(s) >= 3
    /\ s[1] = "("
    /\ s[Len(s)] = ")"
    /\ \A k \in 2..(Len(s)-1) : s[k] \notin LineTerminators

\* what \w in a regex matches
WordChars == UpperLetters \cup LowerLetters \cup Digits \cup {"_"}

\* regex.dialogue.test(s): /^(?!INT|EXT|FADE|CUT)[\w\s,\.'"\-:;\?\!]+$/
RegexDialogue(s) ==
    /\ \A p \in {<<"I","N","T">>, <<"E","X","T">>, <<"F","A","D","E">>, <<"C","U","T">>} :
           ~StartsWith(s, p)
    /\ Len(s) >= 1
    /\ \A k \in 1..Len(s) :
           s[k] \in WordChars \cup WhiteSpace \cup {",", ".", "'", "\"", "-", ":", ";", "?", "!"}

\* regex.transition.test(s): /^(FADE|CUT|DISSOLVE|SMASH|WIPE|FADE TO BLACK|MATCH CUT|TIME CUT).*$/i
RegexTransition(s) ==
    \E kw \in TransitionKeywords :
        /\ StartsWith(ToUpperCase(s), kw)
        /\ \A k \in (Len(kw)+1)..Len(s) : s[k] \notin LineTerminators

\* slip: line.length <= 50 in place of line.length < 50
CharacterMaxLen_Inclusive == 50 + 1

\* the length under which an all-capitals line is a character cue
CharacterMaxLen == 50
\* the length above which an all-capitals line is a technical direction
TechnicalMinLen == 3

ElementKinds == {"scene_heading", "character", "parenthetical", "transition", "technical", "action"}

\* slip: the transition pattern tested before the character pattern
DetectElementType_TransitionFirst(s) ==
    IF RegexSceneHeading(s) THEN "scene_heading"
    ELSE IF RegexTransition(s) THEN "transition"
    ELSE IF RegexCharacter(s) /\ Len(s) < CharacterMaxLen THEN "character"
    ELSE IF RegexParenthetical(s) THEN "parenthetical"
    ELSE IF s = ToUpperCase(s) /\ Len(s) > TechnicalMinLen THEN "technical"
    ELSE "action"

\* _detectElementType(line)
DetectElementType(s) ==
    IF RegexSceneHeading(s) THEN "scene_heading"
    ELSE IF RegexCharacter(s) /\ Len(s) < CharacterMaxLen THEN "character"
    ELSE IF RegexParenthetical(s) THEN "parenthetical"
    ELSE IF RegexTransition(s) THEN "transition"
    ELSE IF s = ToUpperCase(s) /\ Len(s) > TechnicalMinLen THEN "technical"
    ELSE "action"

----------------------------------------------------------------------------
(* The renderer                                                            *)

\* the column width of a dialogue block
DialogueWidth == 35
\* the column width of an action block
ActionWidth == 60

\* slip: line.length > width in place of (line + word).length > width
RECURSIVE WrapLoop_LineOnly(_, _, _, _, _)
WrapLoop_LineOnly(words, k, result, ln, w) ==
    IF k > Len(words) THEN result \o Trim(ln)
    ELSE IF Len(ln) > w
         THEN WrapLoop_LineOnly(words, k + 1, result \o Trim(ln) \o <<"\n">>, words[k] \o <<" ">>, w)
         ELSE WrapLoop_LineOnly(words, k + 1, result, ln \o words[k] \o <<" ">>, w)

\* _wrapText: the for loop over words[k..], with the locals result and line
RECURSIVE WrapLoop(_, _, _, _, _)
WrapLoop(words, k, result, ln, w) ==
    IF k > Len(words) THEN result \o Trim(ln)
    ELSE IF Len(ln \o words[k]) > w
         THEN WrapLoop(words, k + 1, result \o Trim(ln) \o <<"\n">>, words[k] \o <<" ">>, w)
         ELSE WrapLoop(words, k + 1, result, ln \o words[k] \o <<" ">>, w)

\* _wrapText(text, width)
WrapText(t, w) ==
    IF Len(t) <= w THEN t
    ELSE WrapLoop(Split(t, " "), 1, <<>>, <<>>, w)

\* _formatSceneHeading(text)
FormatSceneHeading(t) == ToUpperCase(t)
\* _formatCharacter(text)
FormatCharacter(t) == ToUpperCase(t)
\* _formatTransition(text)
FormatTransition(t) == ToUpperCase(t)
\* _formatTechnical(text)
FormatTechnical(t) == ToUpperCase(t)

\* slip: the opening parenthesis is added without looking at the text
FormatParenthetical_AlwaysOpen(t) ==
    LET t1 == <<"(">> \o t
    IN  IF EndsWith(t1, <<")">>) THEN t1 ELSE t1 \o <<")">>

\* _formatParenthetical(text)
FormatParenthetical(t) ==
    LET t1 == IF StartsWith(t, <<"(">>) THEN t ELSE <<"(">> \o t
    IN  IF EndsWith(t1, <<")">>) THEN t1 ELSE t1 \o <<")">>

\* _formatDialogue(text)
FormatDialogue(t) == WrapText(t, DialogueWidth)
\* slip: the action block wrapped at the dialogue width
FormatAction_DialogueWidth(t) == WrapText(t, DialogueWidth)

\* _formatAction(text)
FormatAction(t) == WrapText(t, ActionWidth)

\* slip: the switch without the technical case, which falls to the default
FormatElement_NoTechnical(type, t) ==
    CASE type = "scene_heading" -> FormatSceneHeading(t)
      [] type = "character"     -> FormatCharacter(t)
      [] type = "parenthetical" -> FormatParenthetical(t)
      [] type = "dialogue"      -> FormatDialogue(t)
      [] type = "transition"    -> FormatTransition(t)
      [] OTHER                  -> FormatAction(t)

\* _formatElement(type, text)
FormatElement(type, t) ==
    CASE type = "scene_heading" -> FormatSceneHeading(t)
      [] type = "character"     -> FormatCharacter(t)
      [] type = "parenthetical" -> FormatParenthetical(t)
      [] type = "dialogue"      -> FormatDialogue(t)
      [] type = "transition"    -> FormatTransition(t)
      [] type = "technical"     -> FormatTechnical(t)
      [] OTHER                  -> FormatAction(t)

----------------------------------------------------------------------------
(* formatScreenplay: the locals of the loop as a record                    *)

\* slip: the pending kind initialised to a kind, not to null
LoopStart_PendingAction == [formattedLines |-> <<>>, currentElement |-> "action", lineBuffer |-> <<>>,
                            emitted |-> <<>>]

\* the locals before the first iteration
LoopStart == [formattedLines |-> <<>>, currentElement |-> "null", lineBuffer |-> <<>>,
              emitted |-> <<>>]

\* slip: lineBuffer = [] forgotten after the push
Flush_KeepBuffer(st) ==
    [st EXCEPT !.formattedLines = Append(@, FormatElement(st.currentElement,
                                                          Join(st.lineBuffer, <<" ">>))),
               !.emitted = Append(@, [type |-> st.currentElement, lines |-> st.lineBuffer,
                                      text |-> Join(st.lineBuffer, <<" ">>),
                                      out |-> FormatElement(st.currentElement,
                                                            Join(st.lineBuffer, <<" ">>))])]

\* formattedLines.push(this._formatElement(currentElement, lineBuffer.join(' '))); lineBuffer = []
Flush(st) ==
    [st EXCEPT !.formattedLines = Append(@, FormatElement(st.currentElement,
                                                          Join(st.lineBuffer, <<" ">>))),
               !.emitted = Append(@, [type |-> st.currentElement, lines |-> st.lineBuffer,
                                      text |-> Join(st.lineBuffer, <<" ">>),
                                      out |-> FormatElement(st.currentElement,
                                                            Join(st.lineBuffer, <<" ">>))]),
               !.lineBuffer = <<>>]

\* slip: continue before formattedLines.push('')
BlankLine_NoSeparator(st) ==
    IF Len(st.lineBuffer) > 0 THEN [Flush(st) EXCEPT !.currentElement = "null"] ELSE st

\* one iteration on an empty stripped line
BlankLine(st) ==
    LET f == IF Len(st.lineBuffer) > 0 THEN [Flush(st) EXCEPT !.currentElement = "null"] ELSE st
    IN  [f EXCEPT !.formattedLines = Append(@, <<>>)]

\* slip: the dialogue pattern consulted for a line after a character or parenthetical block
TextLine_WithDialogue(st, ln) ==
    LET type == IF /\ st.currentElement \in {"character", "parenthetical"}
                   /\ DetectElementType(ln) = "action"
                   /\ RegexDialogue(ln)
                THEN "dialogue"
                ELSE DetectElementType(ln)
        f == IF type # st.currentElement
             THEN [(IF Len(st.lineBuffer) > 0 THEN Flush(st) ELSE st)
                       EXCEPT !.currentElement = type]
             ELSE st
    IN  [f EXCEPT !.lineBuffer = Append(@, ln)]

\* one iteration on a non-empty stripped line
TextLine(st, ln) ==
    LET type == DetectElementType(ln)
        f == IF type # st.currentElement
             THEN [(IF Len(st.lineBuffer) > 0 THEN Flush(st) ELSE st)
                       EXCEPT !.currentElement = type]
             ELSE st
    IN  [f EXCEPT !.lineBuffer = Append(@, ln)]

\* the body of the for loop on lines[k]
LoopBody(st, rawLine) ==
    LET ln == Trim(rawLine)
    IN  IF ln = <<>> THEN BlankLine(st) ELSE TextLine(st, ln)

\* slip: the last element is forgotten
LoopEnd_NoFlush(st) == st

\* after the loop: the last flush
LoopEnd(st) == IF Len(st.lineBuffer) > 0 THEN Flush(st) ELSE st

RECURSIVE RunLoop(_, _, _)
RunLoop(ls, k, st) ==
    IF k > Len(ls) THEN LoopEnd(st) ELSE RunLoop(ls, k + 1, LoopBody(st, ls[k]))

\* formatScreenplay(rawScreenplay)
FormatScreenplay(raw) == Join(RunLoop(Split(raw, "\n"), 1, LoopStart).formattedLines, <<"\n">>)

\* slip: the scene is stripped before it is formatted
FormatScene_Stripped(raw) == FormatScreenplay(Trim(raw))

\* formatScene(rawScene)
FormatScene(raw) == FormatScreenplay(raw)

\* slip: valid: issues.length > 0
ValidateFormat_Inverted(screenplay) ==
    LET ls == Split(screenplay, "\n")
        found == <<>>
    IN  [valid |-> Len(found) > 0, issues |-> found]

\* validateFormat(screenplay)
ValidateFormat(screenplay) ==
    LET ls == Split(screenplay, "\n")
        found == <<>>
    IN  [valid |-> Len(found) = 0, issues |-> found]

\* slip: the fixer reformats the screenplay when it is given issues
FixFormatIssues_Reformats(screenplay, is) ==
    IF Len(is) > 0 THEN FormatScreenplay(screenplay) ELSE screenplay

\* fixFormatIssues(screenplay, issues)
FixFormatIssues(screenplay, is) == screenplay

----------------------------------------------------------------------------
(* Inputs                                                                  *)

\* the most lines of one screenplay
MaxLines == 3
\* the most words of one text given to _wrapText
MaxWords == 4
\* the longest padding of a line given to _detectElementType
MaxPad == 47

\* raw lines of a screenplay, before stripping
RawLinePool ==
    { <<>>,
      <<" ","\t">>,
      <<"J","O","H","N">>,
      <<" "," ","H","e","l","l","o"," ","t","h","e","r","e","."," "," ">>,
      Rep("a", 30) \o <<" ">> \o Rep("b", 28) \o <<" ","c","u","t"," ","i","t">>,
      Rep("x", 61) \o <<" ","g","o">>,
      <<"(","q","u","i","e","t","l","y",")">>,
      <<"i","n","t","."," ","h","o","u","s","e"," ","-"," ","d","a","y">>,
      <<"C","u","t"," ","t","o",":">>,
      <<"B","A","N","G","!">>,
      <<"a"," "," ","b">> }

RawInputs ==
    { Join(ls, <<"\n">>) : ls \in UNION { [1..n -> RawLinePool] : n \in 0..MaxLines } }

\* words of a block text: the empty word stands between two consecutive spaces
WordPool == { <<>>, <<"g","o">>, Rep("m", 17), Rep("n", 30), Rep("p", 36), Rep("x", 61) }

\* block texts: joined stripped lines, so no space at either end
WrapTexts ==
    { Join(ws, <<" ">>) :
        ws \in { w \in UNION { [1..n -> WordPool] : n \in 1..MaxWords } :
                    w[1] # <<>> /\ w[Len(w)] # <<>> } }

WrapWidths == {DialogueWidth, ActionWidth}

LineHeads ==
    { <<>>, <<"I","N","T","."," ">>, <<"i","n","t"," ">>, <<"E","X","T","/","I","N","T",".">>, <<"I","N","T">>,
      <<"F","A","D","E"," ">>, <<"c","u","t"," ">>, <<"J","O","H","N"," ">>, <<"1","S","T"," ">>,
      <<"(">>, <<"(","A">>, <<"H","e"," ">> }
LineTails ==
    { <<>>, <<" ","D","A","Y">>, <<"-","N","I","G","H","T">>, <<" ","d","a","y">>, <<" ","D","A","Y"," ","N","O","W">>,
      <<" ","S","A","M","E"," ","T","I","M","E">>, <<")">>, <<" ","(","V",".","O",".",")">>, <<":">>,
      <<" ","(","2",")">> }
PadChars == {"A", "b"}

\* stripped non-empty lines
DetectLines ==
    { ln \in { Trim(h \o Rep(c, n) \o t) :
                  h \in LineHeads, c \in PadChars, n \in 0..MaxPad, t \in LineTails } :
        ln # <<>> }

\* issue lists given to fixFormatIssues
IssueLists == { <<>>, <<"scene heading">>, <<"scene heading", "character name">> }

\* the most further calls on one shared instance
MaxCalls == 2

\* raw lines of the screenplays given to a shared instance
SharedLinePool == { <<>>, <<"J","O","H","N">>, Rep("x", 61) \o <<" ","g","o">> }

SharedInputs ==
    { Join(ls, <<"\n">>) : ls \in UNION { [1..n -> SharedLinePool] : n \in 0..2 } }

\* the most lines of one block given to the renderer
MaxBlockLines == 2

\* stripped lines of a block
BlockLinePool ==
    { <<"J","O","H","N">>,
      <<"i","n","t","."," ","h","o","u","s","e"," ","-"," ","d","a","y">>,
      <<"(","q","u","i","e","t","l","y",")">>,
      <<"q","u","i","e","t","l","y">>,
      <<"(","(","x",")",")">>,
      <<"(">>,
      <<"C","u","t"," ","t","o",":">>,
      Rep("n", 27) \o <<" "," ","a">>,
      Rep("m", 29) }

\* raw lines of screenplays with character cues and transition keywords
CueLinePool ==
    { <<>>,
      <<"J","O","H","N">>,
      <<"F","A","D","E"," ","O","U","T">>,
      <<" ","F","A","D","E"," ","T","O"," ","B","L","A","C","K"," ">>,
      <<"M","A","T","C","H"," ","C","U","T">>,
      <<"C","u","t"," ","t","o",":">>,
      <<"C","U","T"," ","(","2",")">>,
      <<"F","A","D","E"," ">> \o Rep("A", 45) }

CueInputs ==
    { Join(ls, <<"\n">>) : ls \in UNION { [1..n -> CueLinePool] : n \in 0..MaxLines } }

\* line buffers; the empty one joins to the empty text
BlockBuffers == UNION { [1..n -> BlockLinePool] : n \in 0..MaxBlockLines }

\* the types of the switch of _formatElement
BlockTypes == ElementKinds \cup {"dialogue"}

----------------------------------------------------------------------------
(* The calls as state machines                                             *)

NoFormatCall ==
    /\ rawScreenplay = <<>> /\ lines = <<>> /\ i = 0
    /\ formattedLines = <<>> /\ currentElement = "null" /\ lineBuffer = <<>>
    /\ emitted = <<>> /\ output = <<>>
NoWrapCall == text = <<>> /\ width = 0 /\ wrapped = <<>>
NoDetectCall == line = <<>> /\ elementType = "null"
NoRenderCall == blockType = "null" /\ blockLines = <<>> /\ blockText = <<>> /\ rendered = <<>>
NoStubCall == issues = <<>> /\ validation = [valid |-> FALSE, issues |-> <<>>]
NoRequest == /\ request = [route |-> "none", field |-> FALSE] /\ generated = [kind |-> "none", text |-> <<>>]
             /\ responses = <<>>

\* no ProjectManager call was issued
NoAssetCall ==
    /\ projectJson = <<>> /\ assetFiles = <<>>
    /\ pmCalls = <<>> /\ overlapped = FALSE

\* new ScreenplayFormatter(): the regex table, no pattern has the g or y flag
RegexTable ==
    [sceneHeading  |-> [flags |-> "i", lastIndex |-> 0],
     character     |-> [flags |-> "",  lastIndex |-> 0],
     parenthetical |-> [flags |-> "",  lastIndex |-> 0],
     dialogue      |-> [flags |-> "",  lastIndex |-> 0],
     transition    |-> [flags |-> "i", lastIndex |-> 0]]

\* the instance after construction, before any call
Constructed == regex = RegexTable /\ calls = 0 /\ results = {}

\* the locals of the running formatScreenplay call
Locals == [formattedLines |-> formattedLines, currentElement |-> currentElement,
           lineBuffer |-> lineBuffer, emitted |-> emitted]

SetLocals(st) ==
    /\ formattedLines' = st.formattedLines
    /\ currentElement' = st.currentElement
    /\ lineBuffer' = st.lineBuffer
    /\ emitted' = st.emitted

\* a caller holds a raw screenplay
Init ==
    /\ pc = "idle"
    /\ rawScreenplay \in RawInputs
    /\ lines = <<>> /\ i = 0
    /\ formattedLines = <<>> /\ currentElement = "null" /\ lineBuffer = <<>>
    /\ emitted = <<>> /\ output = <<>>
    /\ NoWrapCall /\ NoDetectCall
    /\ Constructed /\ NoRenderCall /\ NoStubCall /\ NoRequest /\ NoAssetCall

\* slip: formattedLines, currentElement and lineBuffer kept on the instance, not reset
FormatScreenplayEnter_KeepLocals ==
    /\ pc = "idle"
    /\ lines' = Split(rawScreenplay, "\n")
    /\ i' = 1
    /\ pc' = "loop"
    /\ UNCHANGED <<rawScreenplay, output, formattedLines, currentElement, lineBuffer, emitted,
                   wrapVars, detectVars, instVars, renderVars, stubVars, routeVars, assetVars>>

\* formatScreenplay: entry, up to the loop
FormatScreenplayEnter ==
    /\ pc = "idle"
    /\ lines' = Split(rawScreenplay, "\n")
    /\ i' = 1
    /\ SetLocals(LoopStart)
    /\ pc' = "loop"
    /\ UNCHANGED <<rawScreenplay, output, wrapVars, detectVars, instVars, renderVars, stubVars, routeVars,
                   assetVars>>

\* formatScreenplay: one iteration on an empty line
LoopBlankLine ==
    /\ pc = "loop" /\ i <= Len(lines)
    /\ Trim(lines[i]) = <<>>
    /\ SetLocals(LoopBody(Locals, lines[i]))
    /\ i' = i + 1
    /\ UNCHANGED <<pc, rawScreenplay, lines, output, wrapVars, detectVars, instVars, renderVars, stubVars, routeVars,
                   assetVars>>

\* slip: the raw line, not the stripped one, classified and buffered
LoopTextLine_Untrimmed ==
    /\ pc = "loop" /\ i <= Len(lines)
    /\ Trim(lines[i]) # <<>>
    /\ SetLocals(TextLine(Locals, lines[i]))
    /\ i' = i + 1
    /\ UNCHANGED <<pc, rawScreenplay, lines, output, wrapVars, detectVars, instVars, renderVars, stubVars, routeVars,
                   assetVars>>

\* formatScreenplay: one iteration on a non-empty line
LoopTextLine ==
    /\ pc = "loop" /\ i <= Len(lines)
    /\ Trim(lines[i]) # <<>>
    /\ SetLocals(LoopBody(Locals, lines[i]))
    /\ i' = i + 1
    /\ UNCHANGED <<pc, rawScreenplay, lines, output, wrapVars, detectVars, instVars, renderVars, stubVars, routeVars,
                   assetVars>>

\* formatScreenplay: after the loop, the last flush and the return
FormatScreenplayReturn ==
    /\ pc = "loop" /\ i > Len(lines)
    /\ SetLocals(LoopEnd(Locals))
    /\ output' = Join(LoopEnd(Locals).formattedLines, <<"\n">>)
    /\ pc' = "done"
    /\ UNCHANGED <<rawScreenplay, lines, i, wrapVars, detectVars, instVars, renderVars, stubVars, routeVars,
                   assetVars>>

Next == FormatScreenplayEnter \/ LoopBlankLine \/ LoopTextLine \/ FormatScreenplayReturn

Spec == Init /\ [][Next]_vars

\* a caller holds a block text and a width
InitWrap ==
    /\ pc = "wrap"
    /\ text \in WrapTexts
    /\ width \in WrapWidths
    /\ wrapped = <<>>
    /\ NoFormatCall /\ NoDetectCall
    /\ Constructed /\ NoRenderCall /\ NoStubCall /\ NoRequest /\ NoAssetCall

\* a call of _wrapText
WrapTextCall ==
    /\ pc = "wrap"
    /\ wrapped' = WrapText(text, width)
    /\ pc' = "wrapped"
    /\ UNCHANGED <<text, width, fmtVars, detectVars, instVars, renderVars, stubVars, routeVars,
                   assetVars>>

NextWrap == WrapTextCall

SpecWrap == InitWrap /\ [][NextWrap]_vars

\* a caller holds a stripped non-empty line
InitDetect ==
    /\ pc = "detect"
    /\ line \in DetectLines
    /\ elementType = "null"
    /\ NoFormatCall /\ NoWrapCall
    /\ Constructed /\ NoRenderCall /\ NoStubCall /\ NoRequest /\ NoAssetCall

\* a call of _detectElementType
DetectElementTypeCall ==
    /\ pc = "detect"
    /\ elementType' = DetectElementType(line)
    /\ pc' = "detected"
    /\ UNCHANGED <<line, fmtVars, wrapVars, instVars, renderVars, stubVars, routeVars, assetVars>>

NextDetect == DetectElementTypeCall

SpecDetect == InitDetect /\ [][NextDetect]_vars

\* a caller holds a raw screenplay of cues and transitions
InitCue ==
    /\ pc = "idle"
    /\ rawScreenplay \in CueInputs
    /\ lines = <<>> /\ i = 0
    /\ formattedLines = <<>> /\ currentElement = "null" /\ lineBuffer = <<>>
    /\ emitted = <<>> /\ output = <<>>
    /\ NoWrapCall /\ NoDetectCall
    /\ Constructed /\ NoRenderCall /\ NoStubCall /\ NoRequest /\ NoAssetCall

\* either a call of _detectElementType on one line or a call of formatScreenplay
InitShadow == InitDetect \/ InitCue

NextShadow == NextDetect \/ Next

SpecShadow == InitShadow /\ [][NextShadow]_vars


\* the module-level instance of scriptRoutes with its first caller
InitShared ==
    /\ pc = "idle"
    /\ rawScreenplay \in SharedInputs
    /\ lines = <<>> /\ i = 0
    /\ formattedLines = <<>> /\ currentElement = "null" /\ lineBuffer = <<>>
    /\ emitted = <<>> /\ output = <<>>
    /\ NoWrapCall /\ NoDetectCall
    /\ Constructed /\ NoRenderCall /\ NoStubCall /\ NoRequest /\ NoAssetCall

\* the next caller of the same instance: the finished call's locals are dead
FormatScreenplayAgain ==
    /\ pc = "done"
    /\ calls < MaxCalls
    /\ calls' = calls + 1
    /\ results' = results \cup {<<rawScreenplay, output>>}
    /\ rawScreenplay' \in SharedInputs
    /\ pc' = "idle"
    /\ UNCHANGED <<lines, i, formattedLines, currentElement, lineBuffer, emitted, output,
                   regex, wrapVars, detectVars, renderVars, stubVars, routeVars, assetVars>>

NextShared ==
    \/ FormatScreenplayEnter \/ LoopBlankLine \/ LoopTextLine \/ FormatScreenplayReturn
    \/ FormatScreenplayAgain

SpecShared == InitShared /\ [][NextShared]_vars

\* a caller holds a screenplay or a scene, and a list of issues
InitMethods ==
    /\ pc = "idle"
    /\ rawScreenplay \in RawInputs
    /\ issues \in IssueLists
    /\ validation = [valid |-> FALSE, issues |-> <<>>]
    /\ lines = <<>> /\ i = 0
    /\ formattedLines = <<>> /\ currentElement = "null" /\ lineBuffer = <<>>
    /\ emitted = <<>> /\ output = <<>>
    /\ NoWrapCall /\ NoDetectCall
    /\ Constructed /\ NoRenderCall /\ NoRequest /\ NoAssetCall

\* a call of formatScene
FormatSceneCall ==
    /\ pc = "idle"
    /\ output' = FormatScene(rawScreenplay)
    /\ pc' = "scene_done"
    /\ UNCHANGED <<rawScreenplay, lines, i, formattedLines, currentElement, lineBuffer, emitted,
                   wrapVars, detectVars, instVars, renderVars, stubVars, routeVars, assetVars>>

\* a call of validateFormat
ValidateFormatCall ==
    /\ pc = "idle"
    /\ validation' = ValidateFormat(rawScreenplay)
    /\ pc' = "validated"
    /\ UNCHANGED <<fmtVars, issues, wrapVars, detectVars, instVars, renderVars, routeVars, assetVars>>

\* a call of fixFormatIssues
FixFormatIssuesCall ==
    /\ pc = "idle"
    /\ output' = FixFormatIssues(rawScreenplay, issues)
    /\ pc' = "fixed"
    /\ UNCHANGED <<rawScreenplay, lines, i, formattedLines, currentElement, lineBuffer, emitted,
                   wrapVars, detectVars, instVars, renderVars, stubVars, routeVars, assetVars>>

NextMethods == FormatSceneCall \/ ValidateFormatCall \/ FixFormatIssuesCall

SpecMethods == InitMethods /\ [][NextMethods]_vars

\* res.status(code).json({ error, details })
ErrorResponse(code) ==
    [status |-> code, success |-> FALSE, key |-> "error", raw |-> <<>>, formatted |-> <<>>]

\* res.json({ success: true, <key>: { raw, formatted } })
SuccessResponse(k, r, f) ==
    [status |-> 200, success |-> TRUE, key |-> k, raw |-> r, formatted |-> f]

\* what scriptGenerator.generateScreenplay / generateScene resolves to: the text of the
\* model, or undefined when the provider's answer has no text
GeneratorValues ==
    { [kind |-> "text", text |-> t] : t \in RawInputs } \cup { [kind |-> "undefined", text |-> <<>>] }

\* POST /generate-screenplay or POST /generate-scene has arrived, with or without its
\* required field
InitRoutes ==
    /\ pc = "received"
    /\ request \in [route : {"generate-screenplay", "generate-scene"}, field : BOOLEAN]
    /\ generated = [kind |-> "none", text |-> <<>>]
    /\ responses = <<>>
    /\ NoFormatCall /\ NoWrapCall /\ NoDetectCall
    /\ Constructed /\ NoRenderCall /\ NoStubCall /\ NoAssetCall

\* slip: res.status(400).json(...) without return
RouteValidate_NoReturn ==
    /\ pc = "received"
    /\ IF request.field
       THEN UNCHANGED responses
       ELSE responses' = Append(responses, ErrorResponse(400))
    /\ pc' = "awaiting"
    /\ UNCHANGED <<request, generated, fmtVars, wrapVars, detectVars, instVars, renderVars,
                   stubVars, assetVars>>

\* the handler up to its await: the validation of the body and the generator call
RouteValidate ==
    /\ pc = "received"
    /\ IF request.field
       THEN pc' = "awaiting" /\ UNCHANGED responses
       ELSE pc' = "closed" /\ responses' = Append(responses, ErrorResponse(400))
    /\ UNCHANGED <<request, generated, fmtVars, wrapVars, detectVars, instVars, renderVars,
                   stubVars, assetVars>>

\* the generator resolves and the handler runs to its end: a value that is no string
\* makes rawScreenplay.split throw, which the catch answers
GeneratorResolves ==
    /\ pc = "awaiting"
    /\ \E g \in GeneratorValues :
          /\ generated' = g
          /\ responses' = Append(responses,
                 IF g.kind = "text"
                 THEN IF request.route = "generate-screenplay"
                      THEN SuccessResponse("screenplay", g.text, FormatScreenplay(g.text))
                      ELSE SuccessResponse("scene", g.text, FormatScene(g.text))
                 ELSE ErrorResponse(500))
    /\ pc' = "closed"
    /\ UNCHANGED <<request, fmtVars, wrapVars, detectVars, instVars, renderVars, stubVars, assetVars>>

\* the generator rejects and the catch answers
GeneratorRejects ==
    /\ pc = "awaiting"
    /\ generated' = [kind |-> "error", text |-> <<>>]
    /\ responses' = Append(responses, ErrorResponse(500))
    /\ pc' = "closed"
    /\ UNCHANGED <<request, fmtVars, wrapVars, detectVars, instVars, renderVars, stubVars, assetVars>>

NextRoutes == RouteValidate \/ GeneratorResolves \/ GeneratorRejects

SpecRoutes == InitRoutes /\ [][NextRoutes]_vars

\* a caller holds a kind and the lines of a block
InitRender ==
    /\ pc = "render"
    /\ blockType \in BlockTypes
    /\ blockLines \in BlockBuffers
    /\ blockText = <<>> /\ rendered = <<>>
    /\ NoFormatCall /\ NoWrapCall /\ NoDetectCall
    /\ Constructed /\ NoStubCall /\ NoRequest /\ NoAssetCall

\* this._formatElement(currentElement, lineBuffer.join(' '))
FormatElementCall ==
    /\ pc = "render"
    /\ blockText' = Join(blockLines, <<" ">>)
    /\ rendered' = FormatElement(blockType, Join(blockLines, <<" ">>))
    /\ pc' = "rendered"
    /\ UNCHANGED <<blockType, blockLines, fmtVars, wrapVars, detectVars, instVars,
                   stubVars, routeVars, assetVars>>

NextRender == FormatElementCall

SpecRender == InitRender /\ [][NextRender]_vars

----------------------------------------------------------------------------
(* Classification                                                          *)

\* the kinds in the order of their rules
RuleKinds == <<"scene_heading", "character", "parenthetical", "transition", "technical", "action">>

\* the predicate of the k-th rule
RuleHolds(k, s) ==
    CASE k = 1 -> RegexSceneHeading(s)
      [] k = 2 -> RegexCharacter(s) /\ Len(s) < CharacterMaxLen
      [] k = 3 -> RegexParenthetical(s)
      [] k = 4 -> RegexTransition(s)
      [] k = 5 -> s = ToUpperCase(s) /\ Len(s) > TechnicalMinLen
      [] OTHER -> TRUE

\* C7: every stripped non-empty line gets exactly one of the six kinds, the kind of the
\* first rule in priority order whose predicate it satisfies; a line satisfying none of
\* the first five rules is action
C7_PriorityOrder ==
    pc = "detected" =>
        /\ elementType \in ElementKinds
        /\ \E k \in 1..6 :
              /\ RuleHolds(k, line)
              /\ \A m \in 1..(k-1) : ~RuleHolds(m, line)
              /\ elementType = RuleKinds[k]

\* a line that satisfies the character rule and the transition rule at once was classified
C7_Witness ==
    /\ pc = "detected"
    /\ RuleHolds(2, line) /\ RuleHolds(4, line) /\ RuleHolds(5, line)
    /\ elementType = "character"

\* the line is made of these characters only
OnlyChars(s, cs) == \A k \in 1..Len(s) : s[k] \in cs

\* the scene heading rule as claimed: one of the prefixes at the start, any letter case,
\* and a time-of-day token somewhere later in the line
ClaimedSceneHeading(s) ==
    \E p \in ScenePrefixes, t \in TimeOfDay :
        /\ StartsWith(ToUpperCase(s), p)
        /\ \E k \in (Len(p)+1)..(Len(s) - Len(t) + 1) :
               SubSeq(ToUpperCase(s), k, k + Len(t) - 1) = t

\* C8 as claimed: every line that is not a scene heading, is shorter than 50 and is made
\* of uppercase letters, digits, spaces and parentheses only is a character cue, whatever
\* its first character
C8_AnyFirstCharacter ==
    ( /\ pc = "detected"
      /\ ~RegexSceneHeading(line) /\ ~ClaimedSceneHeading(line)
      /\ Len(line) < 50
      /\ OnlyChars(line, UpperLetters \cup Digits \cup {" ", "(", ")"}) )
    => elementType = "character"

\* C8 as amended: every line that is not a scene heading, is shorter than 50, is made of
\* uppercase letters, digits, spaces and parentheses only and starts with an uppercase
\* letter is a character cue
C8_LetterFirst ==
    ( /\ pc = "detected"
      /\ ~RegexSceneHeading(line)
      /\ Len(line) < 50
      /\ OnlyChars(line, UpperLetters \cup Digits \cup {" ", "(", ")"})
      /\ line[1] \in UpperLetters )
    => elementType = "character"

\* a cue with a digit and a parenthesis in it was classified
C8_Witness ==
    /\ pc = "detected"
    /\ ~RegexSceneHeading(line)
    /\ Len(line) < 50
    /\ OnlyChars(line, UpperLetters \cup Digits \cup {" ", "(", ")"})
    /\ line[1] \in UpperLetters
    /\ \E k \in 1..Len(line) : line[k] \in Digits
    /\ \E k \in 1..Len(line) : line[k] = "("
    /\ elementType = "character"

\* C9 as claimed: every line that starts with INT, EXT, INT/EXT or EXT/INT in any letter
\* case and contains a time-of-day token later in the line is a scene heading, also when
\* text follows the token
C9_TokenAnywhere ==
    (pc = "detected" /\ ClaimedSceneHeading(line)) => elementType = "scene_heading"

\* the prefix is directly followed by '.' or white space, the line ends with a time-of-day
\* token directly preceded by another white space, '.' or '-', and no line terminator
\* stands between the two
PrefixSeparatorTokenAtEnd(s) ==
    \E p \in ScenePrefixes, t \in TimeOfDay :
        /\ StartsWith(ToUpperCase(s), p)
        /\ EndsWith(ToUpperCase(s), t)
        /\ Len(s) >= Len(p) + Len(t) + 2
        /\ s[Len(p) + 1] \in WhiteSpace \cup {"."}
        /\ s[Len(s) - Len(t)] \in WhiteSpace \cup {".", "-"}
        /\ \A k \in (Len(p)+2)..(Len(s) - Len(t) - 1) : s[k] \notin LineTerminators

\* C9 as amended: every line that starts with one of the prefixes in any letter case
\* followed by '.' or white space, and ends with a time-of-day token preceded by a further
\* white space, '.' or '-', is a scene heading
C9_TokenAtEnd ==
    (pc = "detected" /\ PrefixSeparatorTokenAtEnd(line)) => elementType = "scene_heading"

\* a lower-case heading with a location between prefix and token was classified
C9_Witness ==
    /\ pc = "detected"
    /\ PrefixSeparatorTokenAtEnd(line)
    /\ line # ToUpperCase(line)
    /\ Len(line) > 12
    /\ elementType = "scene_heading"

\* the line starts with a transition keyword, any letter case
StartsWithTransitionKeyword(s) == \E kw \in TransitionKeywords : StartsWith(ToUpperCase(s), kw)

\* C10: a line of uppercase letters and spaces only that is not a scene heading and does
\* not start with a transition keyword is a character cue when shorter than 50 and a
\* technical direction when 50 long or longer
C10_LengthCap ==
    ( /\ pc = "detected"
      /\ OnlyChars(line, UpperLetters \cup {" "})
      /\ ~RegexSceneHeading(line)
      /\ ~StartsWithTransitionKeyword(line) )
    => /\ Len(line) < 50 => elementType = "character"
       /\ Len(line) >= 50 => elementType = "technical"

\* an all-capitals line of exactly 50 characters was classified technical
C10_Witness ==
    /\ pc = "detected"
    /\ OnlyChars(line, UpperLetters \cup {" "})
    /\ ~RegexSceneHeading(line)
    /\ ~StartsWithTransitionKeyword(line)
    /\ Len(line) = 50
    /\ elementType = "technical"

----------------------------------------------------------------------------
(* Wrapping                                                                *)

\* the lines of a returned string
LinesOf(s) == Split(s, "\n")

\* the words of a string: its maximal runs of characters other than the space
WordsOf(s) == SelectSeq(Split(s, " "), LAMBDA w : w # <<>>)

RECURSIVE Flatten(_)
Flatten(ss) == IF Len(ss) = 0 THEN <<>> ELSE ss[1] \o Flatten(Tail(ss))

\* C3: joining the lines returned by _wrapText with single spaces reproduces the text,
\* every word once and in order, also when the first word is longer than the width and
\* when the text has consecutive spaces
C3_WrapRoundTrip ==
    pc = "wrapped" => Join(LinesOf(wrapped), <<" ">>) = text

\* C4: every line returned by _wrapText is at most width long unless it is one single
\* word of the text that is itself longer than width, and the words of the returned
\* lines are the words of the text in the same order, none split
C4_WidthBound ==
    pc = "wrapped" =>
        /\ \A k \in 1..Len(LinesOf(wrapped)) :
               LET l == LinesOf(wrapped)[k]
               IN  \/ Len(l) <= width
                   \/ /\ \A m \in 1..Len(l) : l[m] # " "
                      /\ \E m \in 1..Len(WordsOf(text)) : WordsOf(text)[m] = l
        /\ Flatten([k \in 1..Len(LinesOf(wrapped)) |-> WordsOf(LinesOf(wrapped)[k])])
               = WordsOf(text)

\* a text was wrapped onto a line of several words and a line of one overlong word
C4_Witness ==
    /\ pc = "wrapped"
    /\ Len(text) > width
    /\ \E k \in 1..Len(LinesOf(wrapped)) : Len(LinesOf(wrapped)[k]) > width
    /\ \E k \in 1..Len(LinesOf(wrapped)) :
           /\ Len(WordsOf(LinesOf(wrapped)[k])) >= 2
           /\ Len(LinesOf(wrapped)[k]) > width - 5

----------------------------------------------------------------------------
(* Document assembly                                                       *)

\* the stripped non-blank lines among the first n input lines
StrippedLines(ls, n) ==
    SelectSeq([k \in 1..n |-> Trim(ls[k])], LAMBDA l : l # <<>>)

\* the number of blank lines of a string
BlankCount(s) == Cardinality({k \in 1..Len(LinesOf(s)) : Trim(LinesOf(s)[k]) = <<>>})
\* the number of empty lines of a string
EmptyCount(s) == Cardinality({k \in 1..Len(LinesOf(s)) : LinesOf(s)[k] = <<>>})

\* C1: formatting the output of formatScreenplay a second time yields the same output
C1_Idempotent ==
    pc = "done" => FormatScreenplay(output) = output

\* C2: the output of formatScreenplay has as many empty lines as the input has blank
\* lines; rendering a block never introduces an empty output line
C2_BlankLinesPreserved ==
    pc = "done" => EmptyCount(output) = BlankCount(rawScreenplay)

\* C5: the stripped non-blank input lines read so far, in input order, are exactly the
\* lines of the emitted blocks in emission order followed by the buffered lines; at the
\* return every one of them is in exactly one emitted block
C5_LinesConserved ==
    /\ pc = "loop" =>
          Flatten([k \in 1..Len(emitted) |-> emitted[k].lines]) \o lineBuffer
              = StrippedLines(lines, i - 1)
    /\ pc = "done" =>
          /\ Flatten([k \in 1..Len(emitted) |-> emitted[k].lines])
                 = StrippedLines(lines, Len(lines))
          /\ \A k \in 1..Len(emitted) : Len(emitted[k].lines) >= 1

\* a screenplay with a line to strip, a kind change and a block of two lines was formatted
C5_Witness ==
    /\ pc = "done"
    /\ \E k \in 1..Len(lines) : Trim(lines[k]) # lines[k]
    /\ Len(emitted) >= 2
    /\ \E k \in 1..Len(emitted) : Len(emitted[k].lines) >= 2

\* the characters a string of the model is made of
Chars == UpperLetters \cup LowerLetters \cup Digits \cup WhiteSpace
             \cup {".", ",", ":", "-", "/", "!", "(", ")"}

\* C6: formatScreenplay reads only lines that exist, one more at every iteration, and
\* returns a string on every input; the empty input yields the empty output and an input
\* of blank lines only yields as many empty lines
C6_Total ==
    /\ pc = "loop" => Len(lines) >= 1 /\ i \in 1..(Len(lines) + 1)
    /\ pc = "done" =>
          /\ output \in Seq(Chars)
          /\ rawScreenplay = <<>> => output = <<>>
          /\ BlankCount(rawScreenplay) = Len(LinesOf(rawScreenplay)) =>
                 output = Rep("\n", Len(LinesOf(rawScreenplay)) - 1)

\* an input of several blank lines was formatted
C6_Witness ==
    /\ pc = "done"
    /\ Len(LinesOf(rawScreenplay)) >= 2
    /\ BlankCount(rawScreenplay) = Len(LinesOf(rawScreenplay))
    /\ rawScreenplay # output

----------------------------------------------------------------------------
(* Rendering                                                               *)

UppercaseKinds == {"scene_heading", "character", "transition", "technical"}

RECURSIVE LeadCount(_, _)
LeadCount(s, c) ==
    IF Len(s) = 0 \/ s[1] # c THEN 0 ELSE 1 + LeadCount(Tail(s), c)
\* the number of c at the end of s
RECURSIVE TrailCount(_, _)
TrailCount(s, c) ==
    IF Len(s) = 0 \/ s[Len(s)] # c THEN 0 ELSE 1 + TrailCount(SubSeq(s, 1, Len(s) - 1), c)

\* C12 as claimed: the rendering of a parenthetical text starts with exactly one '(' and
\* ends with exactly one ')', whatever the text
C12_ExactlyOne ==
    (pc = "rendered" /\ blockType = "parenthetical") =>
        LeadCount(rendered, "(") = 1 /\ TrailCount(rendered, ")") = 1

\* C12 as amended: the rendering of a parenthetical text starts with '(' and ends with
\* ')'; it has one at an end where the text has none or one, and as many as the text
\* where the text has more
C12_AtLeastOne ==
    (pc = "rendered" /\ blockType = "parenthetical") =>
        /\ LeadCount(rendered, "(") =
               (IF LeadCount(blockText, "(") = 0 THEN 1 ELSE LeadCount(blockText, "("))
        /\ TrailCount(rendered, ")") =
               (IF TrailCount(blockText, ")") = 0 THEN 1 ELSE TrailCount(blockText, ")"))

\* a text that has the opening parenthesis and lacks the closing one was rendered
C12_Witness ==
    /\ pc = "rendered"
    /\ blockType = "parenthetical"
    /\ LeadCount(blockText, "(") = 1
    /\ TrailCount(blockText, ")") = 0
    /\ Len(blockText) > 1

\* the first character of t is '(' / the last character of t is ')'
HasOpen(t) == Len(t) > 0 /\ t[1] = "("
HasClose(t) == Len(t) > 0 /\ t[Len(t)] = ")"

\* C21: the rendering of a parenthetical text is the text with '(' put in front when its
\* first character is not '(' and ')' put behind when its last character is not ')', so a
\* text that has both is returned unchanged; rendering the result again changes nothing
C21_OnlyMissing ==
    (pc = "rendered" /\ blockType = "parenthetical") =>
        /\ rendered = (IF HasOpen(blockText) THEN <<>> ELSE <<"(">>) \o blockText
                          \o (IF HasClose(blockText) THEN <<>> ELSE <<")">>)
        /\ (HasOpen(blockText) /\ HasClose(blockText)) => rendered = blockText
        /\ FormatParenthetical(rendered) = rendered

\* 'quietly' was rendered as '(quietly)'
C21_Witness ==
    /\ pc = "rendered"
    /\ blockType = "parenthetical"
    /\ blockText = <<"q","u","i","e","t","l","y">>
    /\ rendered = <<"(","q","u","i","e","t","l","y",")">>

\* C20: an action text of at most 60 characters and a dialogue text of at most 35 are
\* returned character for character, consecutive inner spaces included; a text as long as
\* the width is not wrapped
C20_ShortTextUntouched ==
    /\ (pc = "rendered" /\ blockType = "action" /\ Len(blockText) <= 60) => rendered = blockText
    /\ (pc = "rendered" /\ blockType = "dialogue" /\ Len(blockText) <= 35) => rendered = blockText

\* two consecutive spaces at positions k and k + 1
HasDoubleSpace(s) == \E k \in 1..(Len(s) - 1) : s[k] = " " /\ s[k + 1] = " "

\* an action text of exactly 60 characters with two consecutive spaces was rendered
C20_Witness ==
    /\ pc = "rendered"
    /\ blockType = "action"
    /\ Len(blockText) = 60
    /\ HasDoubleSpace(blockText)
    /\ rendered = blockText

----------------------------------------------------------------------------
(* The shared instance                                                     *)

\* C13: on one shared instance every formatScreenplay call returns what its argument
\* alone determines, the same input always gives the same output whatever was formatted
\* before, and the regex table is never changed
C13_Stateless ==
    /\ regex = RegexTable
    /\ pc = "done" =>
          /\ output = FormatScreenplay(rawScreenplay)
          /\ \A r \in results : r[1] = rawScreenplay => r[2] = output

\* an input was formatted again after another input had been formatted in between
C13_Witness ==
    /\ pc = "done"
    /\ calls = 2
    /\ \E r \in results : r[1] = rawScreenplay /\ r[2] = output /\ Len(output) > 60
    /\ \E r \in results : r[1] # rawScreenplay /\ r[2] # output

----------------------------------------------------------------------------
(* The other public methods                                                *)

\* C14: formatScene returns for every input what formatScreenplay returns for it
C14_SceneAsScreenplay ==
    pc = "scene_done" => output = FormatScreenplay(rawScreenplay)

\* a scene with white space at its ends and several lines was formatted
C14_Witness ==
    /\ pc = "scene_done"
    /\ Trim(rawScreenplay) # rawScreenplay
    /\ Len(LinesOf(rawScreenplay)) = 3
    /\ output # rawScreenplay

\* C15: validateFormat returns valid = true and an empty issue list for every input and
\* leaves the formatter as it was
C15_ValidateStub ==
    pc = "validated" =>
        /\ validation = [valid |-> TRUE, issues |-> <<>>]
        /\ regex = RegexTable

\* a screenplay that formatting would change was validated
C15_Witness ==
    /\ pc = "validated"
    /\ validation.valid
    /\ FormatScreenplay(rawScreenplay) # rawScreenplay

\* C16: fixFormatIssues returns the text unchanged for every text and every issue list
C16_FixIdentity ==
    pc = "fixed" => output = rawScreenplay

\* a screenplay that formatting would change was given to the fixer with two issues
C16_Witness ==
    /\ pc = "fixed"
    /\ Len(issues) = 2
    /\ FormatScreenplay(rawScreenplay) # rawScreenplay
    /\ output = rawScreenplay

----------------------------------------------------------------------------
(* The routes                                                              *)

----------------------------------------------------------------------------
(* Grouping                                                                *)

\* the running call has a line to read and it is blank
AtBlankLine == pc = "loop" /\ i <= Len(lines) /\ Trim(lines[i]) = <<>>
\* the running call has a line to read and it is not blank
AtTextLine == pc = "loop" /\ i <= Len(lines) /\ Trim(lines[i]) # <<>>
\* the running call is past its last line
AtEndOfInput == pc = "loop" /\ i > Len(lines)
\* the line to read is of another kind than the pending block
KindChanges == AtTextLine /\ DetectElementType(Trim(lines[i])) # currentElement

\* the indices of the non-blank input lines, in order
TextLineIndices == SelectSeq([k \in 1..Len(lines) |-> k], LAMBDA k : Trim(lines[k]) # <<>>)

\* the emitted block that holds the n-th non-blank line
RECURSIVE BlockOf(_, _)
BlockOf(n, b) ==
    IF b >= Len(emitted) \/ n <= Len(emitted[b].lines) THEN b
    ELSE BlockOf(n - Len(emitted[b].lines), b + 1)

\* two non-blank lines that follow each other are in one block exactly when no blank line
\* stands between them and they are of one kind; a block's text is its lines joined by
\* single spaces
BlocksAsGrouped ==
    /\ \A n \in 1..(Len(TextLineIndices) - 1) :
          (BlockOf(n, 1) = BlockOf(n + 1, 1)) <=>
              /\ TextLineIndices[n + 1] = TextLineIndices[n] + 1
              /\ DetectElementType(Trim(lines[TextLineIndices[n]]))
                     = DetectElementType(Trim(lines[TextLineIndices[n + 1]]))
    /\ \A b \in 1..Len(emitted) : emitted[b].text = Join(emitted[b].lines, <<" ">>)

\* C18: a step flushes exactly when there is a pending block and a line of another kind, a
\* blank line or the end of input arrives; the flushed block is the whole buffer; a blank
\* line leaves no pending kind, a line of the pending kind is appended to the buffer; so
\* at the return, two text lines are in one block exactly when they are adjacent and of one
\* kind, and each block's text is its lines joined by single spaces
C18_Grouping ==
    /\ [](pc = "done" => BlocksAsGrouped)
    /\ [][ /\ (Len(emitted') = Len(emitted) + 1) <=>
                 (lineBuffer # <<>> /\ (KindChanges \/ AtBlankLine \/ AtEndOfInput))
           /\ Len(emitted') \in {Len(emitted), Len(emitted) + 1}
           /\ Len(emitted') = Len(emitted) + 1 =>
                 /\ emitted'[Len(emitted')].lines = lineBuffer
                 /\ emitted'[Len(emitted')].type = currentElement
                 /\ SubSeq(emitted', 1, Len(emitted)) = emitted
           /\ AtBlankLine => currentElement' = "null" /\ lineBuffer' = <<>>
           /\ (AtTextLine /\ ~KindChanges) => lineBuffer' = Append(lineBuffer, Trim(lines[i]))
         ]_vars

\* two lines of one kind with a blank line between them were emitted as two blocks
C18_Witness ==
    /\ pc = "done"
    /\ Len(lines) = 3
    /\ Trim(lines[2]) = <<>>
    /\ Len(emitted) = 2
    /\ emitted[1].type = emitted[2].type

----------------------------------------------------------------------------
(* Character before transition                                             *)

\* a line shorter than 50 that starts with a transition keyword and has only uppercase
\* letters, digits, spaces and parentheses
AllCapsKeywordLine(s) ==
    /\ StartsWithTransitionKeyword(s)
    /\ OnlyChars(s, UpperLetters \cup Digits \cup {" ", "(", ")"})
    /\ Len(s) < 50

\* the kind k is as claimed for the stripped line s
ShadowedKind(s, k) ==
    /\ AllCapsKeywordLine(s) => k = "character"
    /\ k = "transition" => (StartsWithTransitionKeyword(s) /\ ~AllCapsKeywordLine(s))

\* C22: a stripped line shorter than 50 that starts with a transition keyword and has only
\* uppercase letters, digits, spaces and parentheses is a character cue; a transition is a
\* keyword-initial line that has another character or is 50 long or longer; in a run of
\* formatScreenplay such an all-caps keyword line on the line after a line of a character
\* block is in that block, rendered with it on one line
C22_CharacterShadows ==
    /\ pc = "detected" => ShadowedKind(line, elementType)
    /\ pc = "done" =>
          \A n \in 1..Len(TextLineIndices) :
              LET b == BlockOf(n, 1)
              IN  /\ ShadowedKind(Trim(lines[TextLineIndices[n]]), emitted[b].type)
                  /\ ( /\ n > 1
                       /\ AllCapsKeywordLine(Trim(lines[TextLineIndices[n]]))
                       /\ TextLineIndices[n] = TextLineIndices[n - 1] + 1
                       /\ emitted[BlockOf(n - 1, 1)].type = "character" )
                     => /\ BlockOf(n - 1, 1) = b
                        /\ emitted[b].out = ToUpperCase(Join(emitted[b].lines, <<" ">>))

\* JOHN followed by FADE TO BLACK was emitted as the one block JOHN FADE TO BLACK
C22_Witness ==
    /\ pc = "done"
    /\ Len(lines) = 2
    /\ Len(emitted) = 1
    /\ emitted[1].type = "character"
    /\ emitted[1].out = <<"J","O","H","N"," ","F","A","D","E"," ","T","O"," ","B","L","A","C","K">>

----------------------------------------------------------------------------
(* Blocks of the output                                                    *)

\* the number of rendered blocks among the first k entries of formattedLines; a blank
\* separator is the empty entry, a rendered block is never empty
RECURSIVE BlockAt(_)
BlockAt(k) ==
    IF k = 0 THEN 0
    ELSE BlockAt(k - 1) + (IF formattedLines[k] # <<>> THEN 1 ELSE 0)

\* C23: two rendered blocks next to each other in the output, with no blank separator
\* between them, are of different kinds; before and after every iteration of the loop the
\* line buffer is empty exactly when the pending kind is null, and every buffered line
\* classifies to the pending kind
C23_AdjacentDiffer ==
    /\ BlockAt(Len(formattedLines)) = Len(emitted)
    /\ \A k \in 1..Len(formattedLines) :
          formattedLines[k] # <<>> => formattedLines[k] = emitted[BlockAt(k)].out
    /\ \A k \in 1..(Len(formattedLines) - 1) :
          (formattedLines[k] # <<>> /\ formattedLines[k + 1] # <<>>)
              => emitted[BlockAt(k)].type # emitted[BlockAt(k + 1)].type
    /\ pc = "loop" =>
          /\ (lineBuffer = <<>>) <=> (currentElement = "null")
          /\ \A k \in 1..Len(lineBuffer) : DetectElementType(lineBuffer[k]) = currentElement

\* after the third line two blocks stand next to each other in the output and a third
\* kind is pending
C23_Witness ==
    /\ pc = "loop"
    /\ i = 4
    /\ Len(formattedLines) = 2
    /\ formattedLines[1] # <<>>
    /\ formattedLines[2] # <<>>
    /\ Len(lineBuffer) = 1
    /\ currentElement # emitted[2].type

----------------------------------------------------------------------------
(* ProjectManager: the assets of one project                               *)
(* A JS object is a function from the names of its own properties.  A call *)
(* runs without interruption between two awaits; a read or a write of a    *)
(* file takes effect at the step where its await resolves.  The ids made   *)
(* by uuidv4 are taken as distinct: the id of an asset is the number of    *)
(* the addAsset call that made it.                                         *)

\* o[f] = v
SetField(o, f, v) == [g \in DOMAIN o \cup {f} |-> IF g = f THEN v ELSE o[g]]
\* delete o[f]
DeleteField(o, f) == [g \in DOMAIN o \ {f} |-> o[g]]

\* the assetData values of the callers: a string of 9999 characters, a string of 10000
\* characters, and an object
DataValues == {"string of 9999", "string of 10000", "object"}

\* typeof assetData === 'string'
TypeofString(d) == d # "object"
\* assetData.length, read for strings only
Length(d) == IF d = "string of 9999" THEN 9999 ELSE 10000

\* the length under which a string is kept in project.json
InlineLimit == 10000

\* typeof assetData === 'string' && assetData.length < 10000
StoredInline(d) == TypeofString(d) /\ Length(d) < InlineLimit

\* `${assetId}.json`
AssetFilename(assetId) == <<assetId, ".json">>

\* the most calls issued in one run
MaxOps == 3

\* the calls that have not returned
InFlight == { c \in 1..Len(pmCalls) : pmCalls[c].at # "returned" }

\* the asset ids that addAsset calls returned to their callers
ReturnedIds ==
    { pmCalls[c].assetId : c \in { k \in 1..Len(pmCalls) :
                                      pmCalls[k].op = "addAsset" /\ pmCalls[k].result = "assetId" } }

\* the project was created with assets: {} and no call is running
InitAssets ==
    /\ pc = "serving"
    /\ projectJson = <<>> /\ assetFiles = <<>>
    /\ pmCalls = <<>> /\ overlapped = FALSE
    /\ NoFormatCall /\ NoWrapCall /\ NoDetectCall
    /\ Constructed /\ NoRenderCall /\ NoStubCall /\ NoRequest

\* addAsset(projectId, assetType, assetData) is called and runs up to its first await
AddAssetIssued ==
    /\ Len(pmCalls) < MaxOps
    /\ \E d \in DataValues :
          pmCalls' = Append(pmCalls, [op |-> "addAsset", assetId |-> Len(pmCalls) + 1, data |-> d,
                                      at |-> "loadProjectData", local |-> <<>>,
                                      result |-> "pending"])
    /\ overlapped' = (overlapped \/ InFlight # {})
    /\ UNCHANGED <<projectJson, assetFiles, pc, fmtVars, wrapVars, detectVars, instVars,
                   renderVars, stubVars, routeVars>>

\* updateAsset(projectId, assetId, assetData) is called with an id some addAsset returned
UpdateAssetIssued ==
    /\ Len(pmCalls) < MaxOps
    /\ \E id \in ReturnedIds, d \in DataValues :
          pmCalls' = Append(pmCalls, [op |-> "updateAsset", assetId |-> id, data |-> d,
                                      at |-> "loadProjectData", local |-> <<>>,
                                      result |-> "pending"])
    /\ overlapped' = (overlapped \/ InFlight # {})
    /\ UNCHANGED <<projectJson, assetFiles, pc, fmtVars, wrapVars, detectVars, instVars,
                   renderVars, stubVars, routeVars>>

\* deleteAsset(projectId, assetId) is called with an id some addAsset returned
DeleteAssetIssued ==
    /\ Len(pmCalls) < MaxOps
    /\ \E id \in ReturnedIds :
          pmCalls' = Append(pmCalls, [op |-> "deleteAsset", assetId |-> id, data |-> "object",
                                      at |-> "loadProjectData", local |-> <<>>,
                                      result |-> "pending"])
    /\ overlapped' = (overlapped \/ InFlight # {})
    /\ UNCHANGED <<projectJson, assetFiles, pc, fmtVars, wrapVars, detectVars, instVars,
                   renderVars, stubVars, routeVars>>

\* addAsset: project.json is read; a small string is put in the asset and the asset in
\* the project, anything else goes to fs.writeFile first
AddAssetLoaded ==
    \E c \in InFlight :
        /\ pmCalls[c].op = "addAsset" /\ pmCalls[c].at = "loadProjectData"
        /\ LET call == pmCalls[c]
               asset == [id |-> call.assetId]
           IN  IF StoredInline(call.data)
               THEN pmCalls' = [pmCalls EXCEPT
                                   ![c].local = SetField(projectJson, call.assetId,
                                                         SetField(asset, "data", call.data)),
                                   ![c].at = "saveProjectData"]
               ELSE pmCalls' = [pmCalls EXCEPT ![c].local = projectJson, ![c].at = "writeFile"]
        /\ UNCHANGED <<projectJson, assetFiles, overlapped, pc, fmtVars, wrapVars, detectVars,
                       instVars, renderVars, stubVars, routeVars>>

\* addAsset: the asset file is written, the asset gets its dataFile and goes into the project
AddAssetWritten ==
    \E c \in InFlight :
        /\ pmCalls[c].op = "addAsset" /\ pmCalls[c].at = "writeFile"
        /\ LET call == pmCalls[c]
               asset == [id |-> call.assetId]
           IN  /\ assetFiles' = SetField(assetFiles, AssetFilename(call.assetId), call.data)
               /\ pmCalls' = [pmCalls EXCEPT
                                 ![c].local = SetField(call.local, call.assetId,
                                                  SetField(asset, "dataFile",
                                                           AssetFilename(call.assetId))),
                                 ![c].at = "saveProjectData"]
        /\ UNCHANGED <<projectJson, overlapped, pc, fmtVars, wrapVars, detectVars,
                       instVars, renderVars, stubVars, routeVars>>

\* updateAsset: project.json is read; an asset that is not there ends the call
UpdateAssetLoaded ==
    \E c \in InFlight :
        /\ pmCalls[c].op = "updateAsset" /\ pmCalls[c].at = "loadProjectData"
        /\ LET call == pmCalls[c]
           IN  IF call.assetId \notin DOMAIN projectJson
               THEN pmCalls' = [pmCalls EXCEPT ![c].at = "returned", ![c].result = "false"]
               ELSE IF "dataFile" \in DOMAIN projectJson[call.assetId]
               THEN pmCalls' = [pmCalls EXCEPT ![c].local = projectJson, ![c].at = "writeFile"]
               ELSE IF StoredInline(call.data)
               THEN pmCalls' = [pmCalls EXCEPT
                                   ![c].local = SetField(projectJson, call.assetId,
                                                    SetField(projectJson[call.assetId],
                                                             "data", call.data)),
                                   ![c].at = "saveProjectData"]
               ELSE pmCalls' = [pmCalls EXCEPT ![c].local = projectJson, ![c].at = "writeFile"]
        /\ UNCHANGED <<projectJson, assetFiles, overlapped, pc, fmtVars, wrapVars, detectVars,
                       instVars, renderVars, stubVars, routeVars>>

\* slip: delete asset.data forgotten when the data moves to a file
UpdateAssetWritten_KeepData ==
    \E c \in InFlight :
        /\ pmCalls[c].op = "updateAsset" /\ pmCalls[c].at = "writeFile"
        /\ LET call == pmCalls[c]
               asset == call.local[call.assetId]
           IN  IF "dataFile" \in DOMAIN asset
               THEN /\ assetFiles' = SetField(assetFiles, asset["dataFile"], call.data)
                    /\ pmCalls' = [pmCalls EXCEPT ![c].at = "saveProjectData"]
               ELSE /\ assetFiles' = SetField(assetFiles, AssetFilename(call.assetId), call.data)
                    /\ pmCalls' = [pmCalls EXCEPT
                                      ![c].local = SetField(call.local, call.assetId,
                                                       SetField(asset, "dataFile",
                                                                AssetFilename(call.assetId))),
                                      ![c].at = "saveProjectData"]
        /\ UNCHANGED <<projectJson, overlapped, pc, fmtVars, wrapVars, detectVars,
                       instVars, renderVars, stubVars, routeVars>>

\* updateAsset: the asset file is written; an asset that had no file gets its dataFile and
\* loses its data
UpdateAssetWritten ==
    \E c \in InFlight :
        /\ pmCalls[c].op = "updateAsset" /\ pmCalls[c].at = "writeFile"
        /\ LET call == pmCalls[c]
               asset == call.local[call.assetId]
           IN  IF "dataFile" \in DOMAIN asset
               THEN /\ assetFiles' = SetField(assetFiles, asset["dataFile"], call.data)
                    /\ pmCalls' = [pmCalls EXCEPT ![c].at = "saveProjectData"]
               ELSE /\ assetFiles' = SetField(assetFiles, AssetFilename(call.assetId), call.data)
                    /\ pmCalls' = [pmCalls EXCEPT
                                      ![c].local = SetField(call.local, call.assetId,
                                                       DeleteField(SetField(asset, "dataFile",
                                                                       AssetFilename(call.assetId)),
                                                                   "data")),
                                      ![c].at = "saveProjectData"]
        /\ UNCHANGED <<projectJson, overlapped, pc, fmtVars, wrapVars, detectVars,
                       instVars, renderVars, stubVars, routeVars>>

\* deleteAsset: project.json is read; an asset that is not there ends the call, an asset
\* with a file goes to fs.unlink first
DeleteAssetLoaded ==
    \E c \in InFlight :
        /\ pmCalls[c].op = "deleteAsset" /\ pmCalls[c].at = "loadProjectData"
        /\ LET call == pmCalls[c]
           IN  IF call.assetId \notin DOMAIN projectJson
               THEN pmCalls' = [pmCalls EXCEPT ![c].at = "returned", ![c].result = "false"]
               ELSE IF "dataFile" \in DOMAIN projectJson[call.assetId]
               THEN pmCalls' = [pmCalls EXCEPT ![c].local = projectJson, ![c].at = "unlink"]
               ELSE pmCalls' = [pmCalls EXCEPT
                                   ![c].local = DeleteField(projectJson, call.assetId),
                                   ![c].at = "saveProjectData"]
        /\ UNCHANGED <<projectJson, assetFiles, overlapped, pc, fmtVars, wrapVars, detectVars,
                       instVars, renderVars, stubVars, routeVars>>

\* deleteAsset: the asset file is removed, a failure is logged and passed over; the asset
\* leaves the project
DeleteAssetUnlinked ==
    \E c \in InFlight :
        /\ pmCalls[c].op = "deleteAsset" /\ pmCalls[c].at = "unlink"
        /\ LET call == pmCalls[c]
           IN  /\ assetFiles' = DeleteField(assetFiles, call.local[call.assetId]["dataFile"])
               /\ pmCalls' = [pmCalls EXCEPT ![c].local = DeleteField(call.local, call.assetId),
                                             ![c].at = "saveProjectData"]
        /\ UNCHANGED <<projectJson, overlapped, pc, fmtVars, wrapVars, detectVars,
                       instVars, renderVars, stubVars, routeVars>>

\* saveProjectData(projectId, projectData) and the return of the call
ProjectSaved ==
    \E c \in InFlight :
        /\ pmCalls[c].at = "saveProjectData"
        /\ projectJson' = pmCalls[c].local
        /\ pmCalls' = [pmCalls EXCEPT
                          ![c].at = "returned",
                          ![c].result = IF pmCalls[c].op = "addAsset" THEN "assetId" ELSE "true"]
        /\ UNCHANGED <<assetFiles, overlapped, pc, fmtVars, wrapVars, detectVars,
                       instVars, renderVars, stubVars, routeVars>>

NextAssets ==
    \/ AddAssetIssued \/ UpdateAssetIssued \/ DeleteAssetIssued
    \/ AddAssetLoaded \/ AddAssetWritten
    \/ UpdateAssetLoaded \/ UpdateAssetWritten
    \/ DeleteAssetLoaded \/ DeleteAssetUnlinked
    \/ ProjectSaved

SpecAssets == InitAssets /\ [][NextAssets]_vars

\* getAsset(projectId, assetId) on the stored project: null when the asset is not in it or
\* its file cannot be read
GetAsset(assetId) ==
    IF assetId \notin DOMAIN projectJson THEN [found |-> FALSE]
    ELSE LET asset == projectJson[assetId]
         IN  IF "dataFile" \in DOMAIN asset
             THEN IF asset["dataFile"] \in DOMAIN assetFiles
                  THEN [found |-> TRUE,
                        asset |-> SetField(asset, "data", assetFiles[asset["dataFile"]])]
                  ELSE [found |-> FALSE]
             ELSE [found |-> TRUE, asset |-> asset]

\* the asset ids for which a deleteAsset was issued
DeleteIssuedFor == { pmCalls[c].assetId : c \in { k \in 1..Len(pmCalls) : pmCalls[k].op = "deleteAsset" } }

\* C24: an asset whose addAsset call returned its id, and for which no deleteAsset was
\* issued, is in the stored project and getAsset returns it, whatever the interleaving of
\* the calls
C24_NoLostAsset ==
    \A id \in ReturnedIds \ DeleteIssuedFor :
        /\ GetAsset(id).found
        /\ GetAsset(id).asset["id"] = id

\* an asset has a data property or a dataFile property, not both and not neither
ExactlyOneStorage(asset) == ("data" \in DOMAIN asset) # ("dataFile" \in DOMAIN asset)

\* C25: every asset in the stored project has exactly one of data and dataFile, and data is
\* always a string shorter than 10000; in a run whose calls never overlapped, an asset that
\* has a dataFile keeps it for as long as it is in the project
C25_StorageExclusive ==
    /\ [](\A id \in DOMAIN projectJson :
             /\ ExactlyOneStorage(projectJson[id])
             /\ "data" \in DOMAIN projectJson[id] =>
                   /\ projectJson[id]["data"] # "object"
                   /\ projectJson[id]["data"] # "string of 10000")
    /\ [][ \A id \in DOMAIN projectJson \cap DOMAIN projectJson' :
              (~overlapped' /\ "dataFile" \in DOMAIN projectJson[id])
                  => "dataFile" \in DOMAIN projectJson'[id]
         ]_vars

\* one after the other: a small string was added, a long one moved it to a file, and a
\* small one then went to that file
C25_Witness ==
    /\ ~overlapped
    /\ Len(pmCalls) = 3
    /\ InFlight = {}
    /\ pmCalls[1].op = "addAsset" /\ pmCalls[1].data = "string of 9999"
    /\ pmCalls[2].op = "updateAsset" /\ pmCalls[2].data = "string of 10000"
    /\ pmCalls[3].op = "updateAsset" /\ pmCalls[3].data = "string of 9999"
    /\ pmCalls[3].result = "true"
    /\ "dataFile" \in DOMAIN projectJson[1]
    /\ assetFiles[AssetFilename(1)] = "string of 9999"

====
